---- MODULE Spec2Model ----
(***************************************************************************)
(* Model of ledger-core: the compliance-gated, hash-chained event ledger.  *)
(*   src/src/core/ledger.rs            DigitalLedger, LedgerRecord         *)
(*   src/src/core/event.rs             LedgerEvent and its validation      *)
(*   src/src/compliance/validator.rs   ComplianceValidator and the rules   *)
(* crate::storage::append_only and crate::utils::crypto are not part of    *)
(* the sources at hand; they are modelled from the design's section 4.2    *)
(* and section 6 and from the way ledger.rs calls them.                    *)
(***************************************************************************)
EXTENDS Integers, Sequences, FiniteSets, TLC

\* ------------------------------------------------------------------ bounds
\* Total number of append_event calls made by all callers together.
MaxCalls == 2
\* Largest value the wall clock (chrono::Utc::now) takes.
MaxClock == 1

\* ------------------------------------------------------------- processes
\* Concurrent callers of append_event and of seal_ledger on one chain.
Appenders == {"a1", "a2"}
Sealers == {"s1"}

\* Option<String>::None, and the chain id given to DigitalLedger::new.
None == <<>>
ChainId == "chain-1"

\* ------------------------------------------------------------ event model
\* A LedgerEvent, reduced to the fields that validation, the rules and the
\* digest read: the variant, the entity id (transaction_id / account_id /
\* log_id), Money.amount, Money.currency_code, and tx.currency.
Ev(kind, id, amount, code, currency) ==
    [kind |-> kind, id |-> id, amount |-> amount,
     currency_code |-> code, currency |-> currency]

TxAtLimit == Ev("FinancialTransaction", "t3", 10, "USD", "USD")
TxEuro == Ev("FinancialTransaction", "t4", 15, "EUR", "EUR")
AcctLarge == Ev("AccountCreation", "ac2", 15, "USD", "USD")
TxSmall == Ev("FinancialTransaction", "t1", 5, "USD", "USD")
TxLarge == Ev("FinancialTransaction", "t2", 15, "USD", "USD")
TxNoId == Ev("FinancialTransaction", "", 5, "USD", "USD")
AcctBadCode == Ev("AccountCreation", "ac1", 0, "US", "US")
AuditEntry == Ev("AuditLog", "l1", 0, "", "")

\* The (event, metadata) arguments callers pass to append_event.
Inputs ==
    { <<TxSmall, None>>, <<TxLarge, <<"m1">> >>, <<TxNoId, None>>,
      <<AcctBadCode, <<"m1">> >>, <<AuditEntry, None>> }

\* #[validate(range(min = 0))] amount, #[validate(length(equal = 3))] code.
Money_validate(e) == e.amount >= 0 /\ Len(e.currency_code) = 3

\* LedgerEvent::validate: TRUE for Ok(()), FALSE for Err(String).
LedgerEvent_validate(e) ==
    CASE e.kind = "FinancialTransaction" -> Len(e.id) >= 1 /\ Money_validate(e)
      [] e.kind = "AccountCreation" -> Len(e.id) >= 1 /\ Money_validate(e)
      [] OTHER -> TRUE

\* ------------------------------------------------------------ rule engine
\* RuleSeverity, in the order the design gives it: Warning < Error < Critical.
SeverityRank(s) ==
    CASE s = "Warning" -> 1
      [] s = "Error" -> 2
      [] s = "Critical" -> 3

\* The severity at or above which a violation must block admission
\* (design section 4.1: default Error).
BlockingThreshold == "Error"

Violation(rule_id, severity) == [rule_id |-> rule_id, severity |-> severity]

\* Implementations of the Rule trait. AmountLimit and SanctionedCountries are
\* the two the repository ships; Custom stands for any other implementor,
\* whose evaluate returns Ok(one Warning violation) or Err.
Rule(kind, id, limit, currency, behaviour) ==
    [kind |-> kind, id |-> id, limit |-> limit, currency |-> currency,
     behaviour |-> behaviour]

AmountLimitRule(limit, currency) ==
    Rule("AmountLimit", "AMOUNT_LIMIT", limit, currency, "")
SanctionedCountriesRule ==
    Rule("SanctionedCountries", "SANCTIONED_COUNTRIES", 0, "", "")
WarningRule == Rule("Custom", "DAILY_VOLUME", 0, "", "warn")
FailingRule == Rule("Custom", "KYC_LOOKUP", 0, "", "err")

get_rule_id(rule) == rule.id

get_severity(rule) ==
    CASE rule.kind = "AmountLimit" -> "Error"
      [] rule.kind = "SanctionedCountries" -> "Critical"
      [] OTHER -> "Warning"

\* A variant of AmountLimitRule::evaluate whose comparison is `>=`.
AmountLimitRule_evaluate_Inclusive(rule, e) ==
    IF e.kind = "FinancialTransaction"
       /\ e.currency = rule.currency /\ e.amount >= rule.limit
    THEN << Violation(get_rule_id(rule), get_severity(rule)) >>
    ELSE << >>

\* AmountLimitRule::evaluate: the violations it returns (it never fails).
AmountLimitRule_evaluate(rule, e) ==
    IF e.kind = "FinancialTransaction"
       /\ e.currency = rule.currency /\ e.amount > rule.limit
    THEN << Violation(get_rule_id(rule), get_severity(rule)) >>
    ELSE << >>

\* SanctionedCountriesRule::evaluate: always Ok(empty).
SanctionedCountriesRule_evaluate(rule, e) == << >>

\* Rule::evaluate -> Result<Vec<Violation>>: [ok, violations].
Rule_evaluate(rule, e) ==
    CASE rule.kind = "AmountLimit" ->
           [ok |-> TRUE, violations |-> AmountLimitRule_evaluate(rule, e)]
      [] rule.kind = "SanctionedCountries" ->
           [ok |-> TRUE, violations |-> SanctionedCountriesRule_evaluate(rule, e)]
      [] rule.behaviour = "warn" ->
           [ok |-> TRUE,
            violations |-> << Violation(get_rule_id(rule), get_severity(rule)) >>]
      [] OTHER -> [ok |-> FALSE, violations |-> << >>]

\* ComplianceValidator::new: no rule registered.
ComplianceValidator_new == << >>

\* A variant of add_rule that keeps the rule already registered under the id
\* (HashMap::entry().or_insert()).
add_rule_KeepsFirst(registry, rule) ==
    [i \in DOMAIN registry \cup {get_rule_id(rule)} |->
        IF i \in DOMAIN registry THEN registry[i] ELSE rule]

\* ComplianceValidator::add_rule: HashMap::insert under the rule's id.
add_rule(registry, rule) ==
    [i \in DOMAIN registry \cup {get_rule_id(rule)} |->
        IF i = get_rule_id(rule) THEN rule ELSE registry[i]]

\* A variant of the loop body that drops the failure of a rule.
validate_one_DropsFailure(rule, e) == Rule_evaluate(rule, e).violations

\* The body of the loop of ComplianceValidator::validate for one rule: its
\* violations, or one synthetic Critical violation when it returned Err.
validate_one(rule, e) ==
    LET r == Rule_evaluate(rule, e)
    IN IF r.ok THEN r.violations
       ELSE << Violation(get_rule_id(rule), "Critical") >>

\* ComplianceValidator::validate over the rules in the order `order` (the
\* iteration order of HashMap::values, which the caller cannot choose).
RECURSIVE validate_loop(_, _, _)
validate_loop(registry, order, e) ==
    IF order = << >> THEN << >>
    ELSE validate_one(registry[Head(order)], e)
         \o validate_loop(registry, Tail(order), e)

\* ComplianceValidator::validate always returns Ok(violations).
ComplianceValidator_validate(registry, order, e) ==
    [ok |-> TRUE, violations |-> validate_loop(registry, order, e)]

\* The iteration orders of a HashMap with the given key set.
Orders(keys) ==
    { o \in [1..Cardinality(keys) -> keys] :
        \A i, j \in 1..Cardinality(keys) : i # j => o[i] # o[j] }

\* ComplianceValidator::create_rule_set: HashMap::insert of the id list under
\* the name; the ids are not looked up.
create_rule_set(sets, name, rule_ids) ==
    [n \in DOMAIN sets \cup {name} |-> IF n = name THEN rule_ids ELSE sets[n]]

\* The loop of validate_with_rule_set over the listed ids: an id with no
\* rule registered under it falls through `if let Some(rule)` and is skipped.
RECURSIVE rule_set_evaluated(_, _)
rule_set_evaluated(registry, rule_ids) ==
    IF rule_ids = << >> THEN << >>
    ELSE (IF Head(rule_ids) \in DOMAIN registry THEN << Head(rule_ids) >>
          ELSE << >>)
         \o rule_set_evaluated(registry, Tail(rule_ids))

\* A variant of validate_with_rule_set that answers Ok(empty) for a name with
\* no rule set.
validate_with_rule_set_EmptyOnMissing(registry, sets, e, rule_set_name) ==
    LET rule_ids == IF rule_set_name \in DOMAIN sets
                    THEN sets[rule_set_name] ELSE << >>
        evaluated == rule_set_evaluated(registry, rule_ids)
    IN [ok |-> TRUE, error |-> "", evaluated |-> evaluated,
        violations |-> validate_loop(registry, evaluated, e)]

\* ComplianceValidator::validate_with_rule_set: Err when the name has no rule
\* set, else Ok(violations of the listed rules that are registered).
validate_with_rule_set(registry, sets, e, rule_set_name) ==
    IF rule_set_name \notin DOMAIN sets
    THEN [ok |-> FALSE, error |-> "Rule set not found",
          evaluated |-> << >>, violations |-> << >>]
    ELSE LET evaluated == rule_set_evaluated(registry, sets[rule_set_name])
         IN [ok |-> TRUE, error |-> "", evaluated |-> evaluated,
             violations |-> validate_loop(registry, evaluated, e)]

\* The registry a sequence of add_rule calls builds from ComplianceValidator::new.
RECURSIVE registry_of(_)
registry_of(history) ==
    IF history = << >> THEN ComplianceValidator_new
    ELSE add_rule(registry_of(SubSeq(history, 1, Len(history) - 1)),
                  history[Len(history)])

\* The add_rule calls that built the validators handed to DigitalLedger::new.
RegistryHistories ==
    { << AmountLimitRule(10, "USD"), SanctionedCountriesRule >>,
      << WarningRule >>,
      << FailingRule >> }

\* No evaluation has been asked of the validator yet.
NoRule == Rule("", "", 0, "", "")
NoCall ==
    [op |-> "none", event |-> AuditEntry, set |-> "", rule |-> NoRule,
     evaluated |-> << >>, ok |-> TRUE, error |-> "", violations |-> << >>]

\* The validators handed to DigitalLedger::new, each built by add_rule.
Registries ==
    { add_rule(add_rule(ComplianceValidator_new, AmountLimitRule(10, "USD")),
               SanctionedCountriesRule),
      add_rule(ComplianceValidator_new, WarningRule),
      add_rule(ComplianceValidator_new, FailingRule) }

\* ------------------------------------------------- digest and the store
\* crate::utils::crypto::generate_hash_chain(&event): a deterministic digest
\* of its one argument, the event (ledger.rs:62). A collision-free digest is
\* modelled by tagging the digested content.
generate_hash_chain(e) == << "sha256", e >>

\* Option<serde_json::Value>::unwrap_or_default: Value::Null for None.
unwrap_or_default(opt) == IF opt = None THEN "null" ELSE opt[1]

\* Mutant of LedgerRecord: the record's event_id is filled with the previous
\* hash instead of the event's hash.
LedgerRecord_WrongId(event_id, e, md, ts, prev, chain) ==
    [event_id |-> prev, event |-> e, metadata |-> unwrap_or_default(md),
     timestamp |-> ts, previous_hash |-> prev, chain_id |-> chain,
     signature |-> None]

\* The LedgerRecord literal of append_event (ledger.rs:65-73).
LedgerRecord(event_id, e, md, ts, prev, chain) ==
    [event_id |-> event_id, event |-> e, metadata |-> unwrap_or_default(md),
     timestamp |-> ts, previous_hash |-> prev, chain_id |-> chain,
     signature |-> None]

\* AppendOnlyStorage::get_latest_hash: the identity hash of the most
\* recently appended record, None for an empty chain.
get_latest_hash(recs) ==
    IF recs = << >> THEN None ELSE recs[Len(recs)].event_id

\* AppendOnlyStorage::append: persists one record at the end.
storage_append(recs, record) == Append(recs, record)

\* The digest verification recomputes for a stored record: the same digest
\* function admission used, applied to the stored content it digests.
recompute_hash(record) == generate_hash_chain(record.event)

\* AppendOnlyStorage::verify_chain, the algorithm of design section 4.2:
\* (1) the first previous_hash is None, (2) every stored identity hash equals
\* the recomputed digest, (3) every later previous_hash is the identity hash
\* of the record before it.
verify_chain(recs) ==
    /\ recs # << >> => recs[1].previous_hash = None
    /\ \A i \in 1..Len(recs) : recs[i].event_id = recompute_hash(recs[i])
    /\ \A i \in 2..Len(recs) : recs[i].previous_hash = recs[i-1].event_id

\* LedgerEvent::get_entity_id: the id of whichever variant the event is.
get_entity_id(e) == e.id

\* Whether a record passes the filters of a query; None matches everything.
record_matches(record, entity_id, start_time, end_time) ==
    /\ entity_id = None \/ get_entity_id(record.event) = entity_id[1]
    /\ start_time = None \/ record.timestamp >= start_time[1]
    /\ end_time = None \/ record.timestamp <= end_time[1]

\* AppendOnlyStorage::query_records: the matching records, in append order.
RECURSIVE query_records(_, _, _, _)
query_records(recs, entity_id, start_time, end_time) ==
    IF recs = << >> THEN << >>
    ELSE (IF record_matches(Head(recs), entity_id, start_time, end_time)
          THEN << Head(recs) >> ELSE << >>)
         \o query_records(Tail(recs), entity_id, start_time, end_time)

\* One level of the Merkle tree: adjacent hashes are digested in pairs, the
\* last one with itself when the count is odd.
RECURSIVE merkle_level(_)
merkle_level(hashes) ==
    IF hashes = << >> THEN << >>
    ELSE IF Len(hashes) = 1 THEN << << "sha256", hashes[1], hashes[1] >> >>
    ELSE << << "sha256", hashes[1], hashes[2] >> >>
         \o merkle_level(SubSeq(hashes, 3, Len(hashes)))

\* The root of the tree built bottom-up over a sequence of hashes.
RECURSIVE merkle_root(_)
merkle_root(hashes) ==
    IF hashes = << >> THEN None
    ELSE IF Len(hashes) = 1 THEN hashes[1]
    ELSE merkle_root(merkle_level(hashes))

\* AppendOnlyStorage::get_merkle_root: over the identity hashes of all the
\* records of the chain, in append order.
get_merkle_root(recs) == merkle_root([i \in 1..Len(recs) |-> recs[i].event_id])

\* ------------------------------------------------------------------ state
VARIABLES
    rules,          \* ComplianceValidator.rules
    rule_sets,      \* ComplianceValidator.rule_sets
    added,          \* the rules passed to add_rule so far, in call order
    vcall,          \* the last evaluation asked of the validator, and its result
    is_sealed,      \* DigitalLedger.is_sealed, the value inside the RwLock
    lock_readers,   \* callers holding a read guard of is_sealed
    lock_writers,   \* callers holding the write guard of is_sealed
    records,        \* the store's records of this chain, in append order
    clock,          \* chrono::Utc::now()
    calls,          \* append_event calls made so far
    pc,             \* where each append_event caller is
    event,          \* append_event's `event` argument
    metadata,       \* append_event's `metadata` argument
    violations,     \* what validator.validate returned to the call
    evaluated,      \* rule ids whose evaluate ran for the call, in order
    event_hash,     \* local `event_hash`
    timestamp,      \* the record's timestamp, taken before the store is read
    previous_hash,  \* what get_latest_hash returned to the call
    result,         \* what the call returned
    began_sealed,   \* whether a seal_ledger call had returned when it began
    spc,            \* where each seal_ledger caller is
    seal_result,    \* what each caller's seal_ledger call returned
    integrity,      \* what the last verify_integrity call returned
    tampered        \* whether a stored record was altered behind the ledger

callVars == << event, metadata, violations, evaluated, event_hash,
               timestamp, previous_hash, result, began_sealed >>
validatorVars == << rules, rule_sets, added, vcall >>
lockVars == << is_sealed, lock_readers, lock_writers >>
sealVars == << spc, seal_result >>
ledgerVars == << lockVars, records, clock, calls, pc, callVars, sealVars,
                 integrity, tampered >>
vars == << rules, rule_sets, added, vcall, is_sealed, lock_readers, lock_writers, records, clock,
           calls, pc, event, metadata, violations, evaluated, event_hash,
           timestamp, previous_hash, result, began_sealed, spc, seal_result,
           integrity, tampered >>

\* Result<String, LedgerError> of append_event.
Ok(h) == [tag |-> "Ok", hash |-> h]
Err(kind) == [tag |-> kind, hash |-> None]
Pending == [tag |-> "Pending", hash |-> None]

\* Some seal_ledger call has returned: its caller is done, or is already in
\* a further call.
SealReturned == \E s \in Sealers : spc[s] \in {"done", "relocked"}

\* DigitalLedger::new: an active chain over an empty store.
\* DigitalLedger::new: unsealed, empty store, no call in flight.
InitLedger ==
    /\ is_sealed = FALSE
    /\ lock_readers = {}
    /\ lock_writers = {}
    /\ records = << >>
    /\ clock = 0
    /\ calls = 0
    /\ pc = [p \in Appenders |-> "idle"]
    /\ event = [p \in Appenders |-> AuditEntry]
    /\ metadata = [p \in Appenders |-> None]
    /\ violations = [p \in Appenders |-> << >>]
    /\ evaluated = [p \in Appenders |-> << >>]
    /\ event_hash = [p \in Appenders |-> None]
    /\ timestamp = [p \in Appenders |-> 0]
    /\ previous_hash = [p \in Appenders |-> None]
    /\ result = [p \in Appenders |-> Pending]
    /\ began_sealed = [p \in Appenders |-> FALSE]
    /\ spc = [s \in Sealers |-> "idle"]
    /\ seal_result = [s \in Sealers |-> "Pending"]
    /\ integrity = "unknown"
    /\ tampered = FALSE

Init ==
    /\ rules \in Registries
    /\ rule_sets = << >>
    /\ added \in { h \in RegistryHistories : registry_of(h) = rules }
    /\ vcall = NoCall
    /\ InitLedger

\* ----------------------------------------------------------- append_event
\* A caller invokes append_event(event, metadata).
AppendCall(p) ==
    /\ pc[p] \in {"idle", "done"}
    /\ calls < MaxCalls
    /\ \E in \in Inputs :
         /\ event' = [event EXCEPT ![p] = in[1]]
         /\ metadata' = [metadata EXCEPT ![p] = in[2]]
    /\ calls' = calls + 1
    /\ pc' = [pc EXCEPT ![p] = "read_lock"]
    /\ violations' = [violations EXCEPT ![p] = << >>]
    /\ evaluated' = [evaluated EXCEPT ![p] = << >>]
    /\ event_hash' = [event_hash EXCEPT ![p] = None]
    /\ timestamp' = [timestamp EXCEPT ![p] = 0]
    /\ previous_hash' = [previous_hash EXCEPT ![p] = None]
    /\ result' = [result EXCEPT ![p] = Pending]
    /\ began_sealed' = [began_sealed EXCEPT ![p] = SealReturned]
    /\ UNCHANGED << validatorVars, lockVars, records, clock, sealVars, integrity, tampered >>

\* self.is_sealed.read().await: a read guard is granted while no writer
\* holds the lock.
AppendReadLock(p) ==
    /\ pc[p] = "read_lock"
    /\ lock_writers = {}
    /\ lock_readers' = lock_readers \cup {p}
    /\ pc' = [pc EXCEPT ![p] = "reading"]
    /\ UNCHANGED << validatorVars, is_sealed, lock_writers, records, clock, calls,
                    callVars, sealVars, integrity, tampered >>

\* Mutant of AppendCheckSealed: the read guard is never dropped.
AppendCheckSealed_LeaksGuard(p) ==
    /\ pc[p] = "reading"
    /\ IF is_sealed
       THEN /\ result' = [result EXCEPT ![p] = Err("LedgerSealed")]
            /\ pc' = [pc EXCEPT ![p] = "done"]
       ELSE /\ pc' = [pc EXCEPT ![p] = "validate"]
            /\ UNCHANGED result
    /\ UNCHANGED << validatorVars, lockVars, records, clock, calls,
                    event, metadata, violations, evaluated, event_hash,
                    timestamp, previous_hash, began_sealed, sealVars, integrity,
                    tampered >>

\* `if *guard { return Err(LedgerSealed) }`: the guard is a temporary of the
\* condition and is dropped as soon as the flag has been read.
AppendCheckSealed(p) ==
    /\ pc[p] = "reading"
    /\ lock_readers' = lock_readers \ {p}
    /\ IF is_sealed
       THEN /\ result' = [result EXCEPT ![p] = Err("LedgerSealed")]
            /\ pc' = [pc EXCEPT ![p] = "done"]
       ELSE /\ pc' = [pc EXCEPT ![p] = "validate"]
            /\ UNCHANGED result
    /\ UNCHANGED << validatorVars, is_sealed, lock_writers, records, clock, calls,
                    event, metadata, violations, evaluated, event_hash,
                    timestamp, previous_hash, began_sealed, sealVars, integrity,
                    tampered >>

\* Mutant of AppendValidate: the rules are evaluated before the structure
\* of the event is validated.
AppendValidate_RulesFirst(p) ==
    /\ pc[p] = "validate"
    /\ \E order \in Orders(DOMAIN rules) :
         /\ evaluated' = [evaluated EXCEPT ![p] = order]
         /\ violations' = [violations EXCEPT ![p] =
               ComplianceValidator_validate(rules, order, event[p]).violations]
    /\ IF LedgerEvent_validate(event[p])
       THEN /\ pc' = [pc EXCEPT ![p] = "hash"]
            /\ UNCHANGED result
       ELSE /\ result' = [result EXCEPT ![p] = Err("ValidationError")]
            /\ pc' = [pc EXCEPT ![p] = "done"]
    /\ UNCHANGED << validatorVars, lockVars, records, clock, calls, event, metadata,
                    event_hash, timestamp, previous_hash, began_sealed, sealVars,
                    integrity, tampered >>

\* Mutant of AppendValidate: the record is stored before the event is
\* validated, so a rejected event leaves a record behind.
AppendValidate_StoresFirst(p) ==
    /\ pc[p] = "validate"
    /\ records' = storage_append(records,
                     LedgerRecord(generate_hash_chain(event[p]), event[p],
                                  metadata[p], clock, get_latest_hash(records),
                                  ChainId))
    /\ IF LedgerEvent_validate(event[p])
       THEN /\ result' = [result EXCEPT ![p] = Ok(generate_hash_chain(event[p]))]
            /\ pc' = [pc EXCEPT ![p] = "done"]
       ELSE /\ result' = [result EXCEPT ![p] = Err("ValidationError")]
            /\ pc' = [pc EXCEPT ![p] = "done"]
    /\ UNCHANGED << validatorVars, lockVars, clock, calls, event, metadata,
                    violations, evaluated, event_hash, timestamp,
                    previous_hash, began_sealed, sealVars, integrity, tampered >>

\* event.validate()?
AppendValidate(p) ==
    /\ pc[p] = "validate"
    /\ IF LedgerEvent_validate(event[p])
       THEN /\ pc' = [pc EXCEPT ![p] = "compliance"]
            /\ UNCHANGED result
       ELSE /\ result' = [result EXCEPT ![p] = Err("ValidationError")]
            /\ pc' = [pc EXCEPT ![p] = "done"]
    /\ UNCHANGED << validatorVars, lockVars, records, clock, calls, event, metadata,
                    violations, evaluated, event_hash, timestamp,
                    previous_hash, began_sealed, sealVars, integrity, tampered >>

\* self.validator.validate(&event).await.map_err(ComplianceViolation)?:
\* only an Err of validate rejects; the violations of an Ok are dropped.
AppendCompliance(p) ==
    /\ pc[p] = "compliance"
    /\ \E order \in Orders(DOMAIN rules) :
         LET r == ComplianceValidator_validate(rules, order, event[p])
         IN /\ evaluated' = [evaluated EXCEPT ![p] = order]
            /\ violations' = [violations EXCEPT ![p] = r.violations]
            /\ IF r.ok
               THEN /\ pc' = [pc EXCEPT ![p] = "hash"]
                    /\ UNCHANGED result
               ELSE /\ result' = [result EXCEPT ![p] = Err("ComplianceViolation")]
                    /\ pc' = [pc EXCEPT ![p] = "done"]
    /\ UNCHANGED << validatorVars, lockVars, records, clock, calls, event, metadata,
                    event_hash, timestamp, previous_hash, began_sealed, sealVars,
                    integrity, tampered >>

\* generate_hash_chain(&event)? and the record's timestamp, Utc::now(),
\* both taken before the store is asked for the latest hash.
AppendHash(p) ==
    /\ pc[p] = "hash"
    /\ event_hash' = [event_hash EXCEPT ![p] = generate_hash_chain(event[p])]
    /\ \E t \in clock..(clock + 1) :
         /\ t <= MaxClock
         /\ clock' = t
         /\ timestamp' = [timestamp EXCEPT ![p] = t]
    /\ pc' = [pc EXCEPT ![p] = "get_latest"]
    /\ UNCHANGED << validatorVars, lockVars, records, calls, event, metadata,
                    violations, evaluated, previous_hash, result,
                    began_sealed, sealVars, integrity, tampered >>

\* previous_hash: self.storage.get_latest_hash().await?
\* Mutant of AppendGetLatest: the latest hash is read from an empty store.
AppendGetLatest_FromEmpty(p) ==
    /\ pc[p] = "get_latest"
    /\ previous_hash' = [previous_hash EXCEPT ![p] = get_latest_hash(<< >>)]
    /\ pc' = [pc EXCEPT ![p] = "append"]
    /\ UNCHANGED << validatorVars, lockVars, records, clock, calls, event, metadata,
                    violations, evaluated, event_hash, timestamp, result,
                    began_sealed, sealVars, integrity, tampered >>

AppendGetLatest(p) ==
    /\ pc[p] = "get_latest"
    /\ previous_hash' = [previous_hash EXCEPT ![p] = get_latest_hash(records)]
    /\ pc' = [pc EXCEPT ![p] = "append"]
    /\ UNCHANGED << validatorVars, lockVars, records, clock, calls, event, metadata,
                    violations, evaluated, event_hash, timestamp, result,
                    began_sealed, sealVars, integrity, tampered >>

\* Mutant of AppendStore: the record is written over the store's last record
\* instead of being added after it.
AppendStore_ReplacesLast(p) ==
    /\ pc[p] = "append"
    /\ records' = storage_append(
                     SubSeq(records, 1, Len(records) - 1),
                     LedgerRecord(event_hash[p], event[p], metadata[p],
                                  timestamp[p], previous_hash[p], ChainId))
    /\ result' = [result EXCEPT ![p] = Ok(event_hash[p])]
    /\ pc' = [pc EXCEPT ![p] = "done"]
    /\ UNCHANGED << validatorVars, lockVars, clock, calls, event, metadata,
                    violations, evaluated, event_hash, timestamp,
                    previous_hash, began_sealed, sealVars, integrity, tampered >>

\* self.storage.append(record).await?; Ok(event_hash)
AppendStore(p) ==
    /\ pc[p] = "append"
    /\ records' = storage_append(records,
                     LedgerRecord(event_hash[p], event[p], metadata[p],
                                  timestamp[p], previous_hash[p], ChainId))
    /\ result' = [result EXCEPT ![p] = Ok(event_hash[p])]
    /\ pc' = [pc EXCEPT ![p] = "done"]
    /\ UNCHANGED << validatorVars, lockVars, clock, calls, event, metadata,
                    violations, evaluated, event_hash, timestamp,
                    previous_hash, began_sealed, sealVars, integrity, tampered >>

\* ------------------------------------------------------------ seal_ledger
\* self.is_sealed.write().await: the write guard is exclusive.
SealWriteLock(s) ==
    /\ spc[s] = "idle"
    /\ lock_readers = {}
    /\ lock_writers = {}
    /\ lock_writers' = {s}
    /\ spc' = [spc EXCEPT ![s] = "locked"]
    /\ seal_result' = [seal_result EXCEPT ![s] = "Pending"]
    /\ UNCHANGED << validatorVars, is_sealed, lock_readers, records, clock, calls,
                    pc, callVars, integrity, tampered >>

\* Mutant of SealSet: seal_ledger returns without writing the flag.
SealSet_NoWrite(s) ==
    /\ spc[s] \in {"locked", "relocked"}
    /\ lock_writers' = lock_writers \ {s}
    /\ spc' = [spc EXCEPT ![s] = "done"]
    /\ seal_result' = [seal_result EXCEPT ![s] = "Ok"]
    /\ UNCHANGED << validatorVars, is_sealed, lock_readers, records, clock, calls,
                    pc, callVars, integrity, tampered >>

\* Mutant of SealSet: the flag is flipped instead of set.
SealSet_Toggle(s) ==
    /\ spc[s] \in {"locked", "relocked"}
    /\ is_sealed' = ~is_sealed
    /\ lock_writers' = lock_writers \ {s}
    /\ spc' = [spc EXCEPT ![s] = "done"]
    /\ seal_result' = [seal_result EXCEPT ![s] = "Ok"]
    /\ UNCHANGED << validatorVars, lock_readers, records, clock, calls, pc, callVars,
                    integrity, tampered >>

\* Mutant of SealSet: sealing a chain that is already sealed is an error.
SealSet_RejectsSealed(s) ==
    /\ spc[s] \in {"locked", "relocked"}
    /\ is_sealed' = TRUE
    /\ lock_writers' = lock_writers \ {s}
    /\ spc' = [spc EXCEPT ![s] = "done"]
    /\ seal_result' = [seal_result EXCEPT ![s] =
                          IF is_sealed THEN "LedgerSealed" ELSE "Ok"]
    /\ UNCHANGED << validatorVars, lock_readers, records, clock, calls, pc, callVars,
                    integrity, tampered >>

\* *sealed = true; Ok(()): the guard is dropped on return.
SealSet(s) ==
    /\ spc[s] \in {"locked", "relocked"}
    /\ is_sealed' = TRUE
    /\ lock_writers' = lock_writers \ {s}
    /\ spc' = [spc EXCEPT ![s] = "done"]
    /\ seal_result' = [seal_result EXCEPT ![s] = "Ok"]
    /\ UNCHANGED << validatorVars, lock_readers, records, clock, calls, pc, callVars,
                    integrity, tampered >>

\* ------------------------------------------------------- verify_integrity
\* self.storage.verify_chain().await: Ok(bool).
VerifyIntegrity ==
    /\ integrity' = IF verify_chain(records) THEN "pass" ELSE "fail"
    /\ UNCHANGED << validatorVars, lockVars, records, clock, calls, pc, callVars,
                    sealVars, tampered >>

\* self.is_sealed.write().await of a further seal_ledger call, made by a
\* caller whose earlier call has returned.
SealAgain(s) ==
    /\ spc[s] = "done"
    /\ lock_readers = {}
    /\ lock_writers = {}
    /\ lock_writers' = {s}
    /\ spc' = [spc EXCEPT ![s] = "relocked"]
    /\ seal_result' = [seal_result EXCEPT ![s] = "Pending"]
    /\ UNCHANGED << validatorVars, is_sealed, lock_readers, records, clock, calls,
                    pc, callVars, integrity, tampered >>

\* -------------------------------------------- get_audit_trail, merkle root
\* The filters callers pass to get_audit_trail.
EntityFilters == { None, << "t1" >> }
TimeFilters == { None, << 1 >> }

\* self.storage.query_records(entity_id, start_time, end_time).await: the
\* matching records are returned to the caller; the ledger and the store are
\* only read.
GetAuditTrail ==
    /\ \A entity_id \in EntityFilters, start_time \in TimeFilters :
         Len(query_records(records, entity_id, start_time, None)) <= Len(records)
    /\ UNCHANGED vars

\* self.storage.get_merkle_root().await: the root is returned to the caller;
\* the ledger and the store are only read.
GetMerkleRoot ==
    /\ (records = << >>) <=> (get_merkle_root(records) = None)
    /\ UNCHANGED vars

Next ==
    \/ \E p \in Appenders : AppendCall(p)
    \/ \E p \in Appenders : AppendReadLock(p)
    \/ \E p \in Appenders : AppendCheckSealed(p)
    \/ \E p \in Appenders : AppendValidate(p)
    \/ \E p \in Appenders : AppendCompliance(p)
    \/ \E p \in Appenders : AppendHash(p)
    \/ \E p \in Appenders : AppendGetLatest(p)
    \/ \E p \in Appenders : AppendStore(p)
    \/ \E s \in Sealers : SealWriteLock(s)
    \/ \E s \in Sealers : SealSet(s)
    \/ VerifyIntegrity

Spec == Init /\ [][Next]_vars

\* Every operation of the ledger core, seal_ledger called repeatedly, over a
\* ledger whose validator holds one rule.
InitOps ==
    /\ Init
    /\ rules = add_rule(ComplianceValidator_new, WarningRule)

NextOps ==
    \/ Next
    \/ \E s \in Sealers : SealAgain(s)
    \/ GetAuditTrail
    \/ GetMerkleRoot

SpecOps == InitOps /\ [][NextOps]_vars

\* ------------------------------------------- calls that do not overlap
\* The number of append_event calls made one after the other.
MaxSeqCalls == 3

\* A caller invokes append_event(event, metadata) when no other append_event
\* call is in flight.
AppendCallAlone(p) ==
    /\ \A q \in Appenders : pc[q] \in {"idle", "done"}
    /\ calls < MaxSeqCalls
    /\ \E in \in Inputs :
         /\ event' = [event EXCEPT ![p] = in[1]]
         /\ metadata' = [metadata EXCEPT ![p] = in[2]]
    /\ calls' = calls + 1
    /\ pc' = [pc EXCEPT ![p] = "read_lock"]
    /\ violations' = [violations EXCEPT ![p] = << >>]
    /\ evaluated' = [evaluated EXCEPT ![p] = << >>]
    /\ event_hash' = [event_hash EXCEPT ![p] = None]
    /\ timestamp' = [timestamp EXCEPT ![p] = 0]
    /\ previous_hash' = [previous_hash EXCEPT ![p] = None]
    /\ result' = [result EXCEPT ![p] = Pending]
    /\ began_sealed' = [began_sealed EXCEPT ![p] = SealReturned]
    /\ UNCHANGED << validatorVars, lockVars, records, clock, sealVars, integrity, tampered >>

NextSeq ==
    \/ \E p \in Appenders : AppendCallAlone(p)
    \/ \E p \in Appenders : AppendReadLock(p)
    \/ \E p \in Appenders : AppendCheckSealed(p)
    \/ \E p \in Appenders : AppendValidate(p)
    \/ \E p \in Appenders : AppendCompliance(p)
    \/ \E p \in Appenders : AppendHash(p)
    \/ \E p \in Appenders : AppendGetLatest(p)
    \/ \E p \in Appenders : AppendStore(p)
    \/ \E s \in Sealers : SealWriteLock(s)
    \/ \E s \in Sealers : SealSet(s)
    \/ VerifyIntegrity

SpecSeq == InitOps /\ [][NextSeq]_vars

\* ------------------------------------------------------ fair scheduling
\* A caller invokes seal_ledger(); its write().await is now pending.
SealCall(s) ==
    /\ spc[s] = "idle"
    /\ spc' = [spc EXCEPT ![s] = "write_lock"]
    /\ seal_result' = [seal_result EXCEPT ![s] = "Pending"]
    /\ UNCHANGED << validatorVars, lockVars, records, clock, calls, pc, callVars,
                    integrity, tampered >>

\* self.is_sealed.write().await completes: the write guard is granted while
\* no reader and no writer holds the lock.
SealAcquire(s) ==
    /\ spc[s] = "write_lock"
    /\ lock_readers = {}
    /\ lock_writers = {}
    /\ lock_writers' = {s}
    /\ spc' = [spc EXCEPT ![s] = "locked"]
    /\ UNCHANGED << validatorVars, is_sealed, lock_readers, records, clock, calls,
                    pc, callVars, seal_result, integrity, tampered >>

\* The events passed to the calls whose termination is checked: one that
\* reaches the store and one that is rejected on the way.
FairEvents == { TxSmall, TxNoId }

AppendCallFair(p) == AppendCall(p) /\ event'[p] \in FairEvents

\* The steps of an append_event call that is in flight.
AppendStep(p) ==
    \/ AppendReadLock(p)
    \/ AppendCheckSealed(p)
    \/ AppendValidate(p)
    \/ AppendCompliance(p)
    \/ AppendHash(p)
    \/ AppendGetLatest(p)
    \/ AppendStore(p)

\* The steps of a seal_ledger call that is in flight.
SealStep(s) == SealAcquire(s) \/ SealSet(s)

NextFair ==
    \/ \E p \in Appenders : AppendCallFair(p)
    \/ \E p \in Appenders : AppendStep(p)
    \/ \E s \in Sealers : SealCall(s)
    \/ \E s \in Sealers : SealStep(s)

\* The executor polls every task that can make progress: a call in flight
\* whose next step is possible is not left waiting forever.
Fairness ==
    /\ \A p \in Appenders : WF_vars(AppendStep(p))
    /\ \A s \in Sealers : WF_vars(SealStep(s))

SpecFair == InitOps /\ [][NextFair]_vars /\ Fairness

\* ------------------------------------------------- ComplianceValidator
\* The number of add_rule calls made on one validator.
MaxAdds == 2

\* The rules callers register, two of them under the same id.
RuleChoices ==
    { AmountLimitRule(10, "USD"), AmountLimitRule(5, "EUR"),
      WarningRule, FailingRule }

\* The events callers have evaluated.
RuleEvents == { TxAtLimit, TxLarge, TxEuro, AcctLarge }

\* The rule-set name callers declare, the names they ask for, and the id
\* lists they declare; ids are free strings, so a list may name an id no
\* rule carries.
RuleSetNames == { "aml" }
LookupNames == { "aml", "kyc" }
RuleIdLists ==
    { << "AMOUNT_LIMIT" >>, << "KYC_LOOKUP", "AMOUNT_LIMIT" >>,
      << "AMOUNT_LIMIT", "SANCTIONS_V2" >> }

\* validator.add_rule(rule)
AddRule(rule) ==
    /\ Len(added) < MaxAdds
    /\ rules' = add_rule(rules, rule)
    /\ added' = Append(added, rule)
    /\ UNCHANGED << rule_sets, vcall, ledgerVars >>

\* validator.create_rule_set(name, rule_ids)
CreateRuleSet(name, rule_ids) ==
    /\ rule_sets' = create_rule_set(rule_sets, name, rule_ids)
    /\ UNCHANGED << rules, added, vcall, ledgerVars >>

\* validator.validate(event, context), the HashMap iterating in some order.
Validate(e) ==
    /\ \E order \in Orders(DOMAIN rules) :
         LET r == ComplianceValidator_validate(rules, order, e)
         IN vcall' = [op |-> "validate", event |-> e, set |-> "",
                      rule |-> NoRule, evaluated |-> order, ok |-> r.ok,
                      error |-> "", violations |-> r.violations]
    /\ UNCHANGED << rules, rule_sets, added, ledgerVars >>

\* validator.validate_with_rule_set(event, rule_set_name)
ValidateWithRuleSet(e, rule_set_name) ==
    /\ LET r == validate_with_rule_set(rules, rule_sets, e, rule_set_name)
       IN vcall' = [op |-> "validate_with_rule_set", event |-> e,
                    set |-> rule_set_name, rule |-> NoRule,
                    evaluated |-> r.evaluated, ok |-> r.ok,
                    error |-> r.error, violations |-> r.violations]
    /\ UNCHANGED << rules, rule_sets, added, ledgerVars >>

\* rule.evaluate(event, context) called on a rule directly.
RuleEvaluate(rule, e) ==
    /\ LET r == Rule_evaluate(rule, e)
       IN vcall' = [op |-> "evaluate", event |-> e, set |-> "",
                    rule |-> rule, evaluated |-> << get_rule_id(rule) >>,
                    ok |-> r.ok,
                    error |-> IF r.ok THEN "" ELSE "Rule evaluation error",
                    violations |-> r.violations]
    /\ UNCHANGED << rules, rule_sets, added, ledgerVars >>

\* A validator fresh from ComplianceValidator::new, used on its own.
InitValidator ==
    /\ rules = ComplianceValidator_new
    /\ rule_sets = << >>
    /\ added = << >>
    /\ vcall = NoCall
    /\ InitLedger

NextValidator ==
    \/ \E rule \in RuleChoices : AddRule(rule)
    \/ \E name \in RuleSetNames, rule_ids \in RuleIdLists :
         CreateRuleSet(name, rule_ids)
    \/ \E e \in RuleEvents : Validate(e)
    \/ \E e \in RuleEvents, name \in LookupNames : ValidateWithRuleSet(e, name)
    \/ \E rule \in RuleChoices, e \in RuleEvents : RuleEvaluate(rule, e)

SpecValidator == InitValidator /\ [][NextValidator]_vars

\* ------------------------------------------------------ simulated tamper
\* The values a tamperer may write into a field of a stored record.
TamperValues(field) ==
    CASE field = "event" -> { in[1] : in \in Inputs }
      [] field = "metadata" -> { "null", "m1", "forged" }
      [] field = "timestamp" -> 0..(MaxClock + 1)
      [] field = "previous_hash" ->
           {None} \cup { generate_hash_chain(in[1]) : in \in Inputs }
      [] field = "chain_id" -> { ChainId, "chain-2" }
      [] field = "event_id" -> { generate_hash_chain(in[1]) : in \in Inputs }

TamperFields ==
    { "event", "metadata", "timestamp", "previous_hash", "chain_id", "event_id" }

\* One field of one previously appended record is overwritten in the store,
\* behind the ledger's back (the simulated tamper of design section 8).
Tamper ==
    /\ ~tampered
    /\ \E i \in 1..Len(records), field \in TamperFields :
         \E v \in TamperValues(field) :
            /\ v # records[i][field]
            /\ records' = [records EXCEPT ![i] = [@ EXCEPT ![field] = v]]
    /\ tampered' = TRUE
    /\ UNCHANGED << validatorVars, lockVars, clock, calls, pc, callVars, sealVars,
                    integrity >>

NextTamper == Next \/ Tamper

SpecTamper == Init /\ [][NextTamper]_vars

\* ================================================================= claims
\* Some violation is at or above the blocking threshold.
HasBlocking(vs) ==
    \E i \in 1..Len(vs) :
        SeverityRank(vs[i].severity) >= SeverityRank(BlockingThreshold)

\* The rule engine reports no blocking violation for e, whatever the order.
NoBlocking(e) ==
    \A order \in Orders(DOMAIN rules) :
        ~HasBlocking(ComplianceValidator_validate(rules, order, e).violations)

\* C1: no record is added to the store once a seal_ledger call has
\* returned, in any interleaving of appenders and sealers.
C1_NoAppendAfterSeal == [][SealReturned => records' = records]_vars

\* C2: no two stored records have the same previous_hash (None included).
C2_NoSharedPredecessor ==
    \A i, j \in 1..Len(records) :
        i # j => records[i].previous_hash # records[j].previous_hash

\* C3: the first record's previous_hash is None and every later record's
\* previous_hash is the identity hash of the record just before it.
C3_ChainLinked ==
    /\ records # << >> => records[1].previous_hash = None
    /\ \A i \in 2..Len(records) :
          records[i].previous_hash = records[i-1].event_id

\* C4: a call to which the rule engine returned a violation at or above the
\* blocking threshold goes no further towards the store and returns
\* ComplianceViolation.
C4_BlockingViolationRejects ==
    \A p \in Appenders :
        HasBlocking(violations[p]) =>
            /\ pc[p] \notin {"hash", "get_latest", "append"}
            /\ pc[p] = "done" => result[p] = Err("ComplianceViolation")

\* C5: an append_event call that began after a seal_ledger call returned
\* never gets past the sealed check and returns LedgerSealed, whatever its
\* event.
C5_SealedRejectsLaterCalls ==
    \A p \in Appenders :
        began_sealed[p] =>
            /\ pc[p] \in {"read_lock", "reading", "done"}
            /\ pc[p] = "done" => result[p] = Err("LedgerSealed")

\* C5 witness: two calls made after the seal returned, one of them with a
\* structurally invalid event, have both returned LedgerSealed.
C5_Witness ==
    /\ \A p \in Appenders :
          began_sealed[p] /\ pc[p] = "done" /\ result[p] = Err("LedgerSealed")
    /\ \E p \in Appenders : ~LedgerEvent_validate(event[p])
    /\ \E p \in Appenders : LedgerEvent_validate(event[p])

\* C6: the same event stored after two different predecessors has two
\* different identity hashes.
C6_HashBindsPredecessor ==
    \A i, j \in 1..Len(records) :
        (records[i].event = records[j].event
         /\ records[i].previous_hash # records[j].previous_hash)
            => records[i].event_id # records[j].event_id

\* C7: whenever verify_integrity reports a new verdict, it is "fail" exactly
\* when a field of a stored record has been altered.
C7_TamperDetected ==
    [][integrity' # integrity => ((integrity' = "fail") <=> tampered)]_vars

\* C8: for a structurally invalid event no rule is ever evaluated, the call
\* never reaches the compliance step, and it returns ValidationError unless
\* the sealed check already rejected it.
C8_InvalidRejectedBeforeRules ==
    \A p \in Appenders :
        ~LedgerEvent_validate(event[p]) =>
            /\ evaluated[p] = << >>
            /\ pc[p] \in {"read_lock", "reading", "validate", "done"}
            /\ (pc[p] = "done" /\ result[p] # Err("LedgerSealed"))
                  => result[p] = Err("ValidationError")

\* C8 witness: an invalid event was rejected with ValidationError on a
\* chain whose validator has rules, and none of them ran.
C8_Witness ==
    \E p \in Appenders :
        /\ ~LedgerEvent_validate(event[p])
        /\ pc[p] = "done" /\ result[p] = Err("ValidationError")
        /\ DOMAIN rules # {} /\ evaluated[p] = << >>

\* C9: the only step of an append_event call that changes the stored record
\* sequence, its latest hash or the sealed flag is the last step of a call
\* returning Ok: a call that fails has changed none of them.
C9_FailedCallChangesNothing ==
    [][\A p \in Appenders :
         (pc'[p] # pc[p]
          /\ ~(pc'[p] = "done" /\ result'[p].tag = "Ok"))
            => /\ records' = records
               /\ get_latest_hash(records') = get_latest_hash(records)
               /\ is_sealed' = is_sealed]_vars

\* C9 witness: after one record was stored, a second call has failed with
\* ValidationError or LedgerSealed and the chain still holds that one record.
C9_Witness ==
    /\ Len(records) = 1
    /\ \E p \in Appenders :
          pc[p] = "done" /\ result[p].tag \in {"ValidationError", "LedgerSealed"}
    /\ calls = 2

C11_SealedIsTerminal == [][is_sealed => is_sealed']_vars

\* C11 witness: on a sealed chain an append was rejected, the chain was
\* verified, and a further seal_ledger call holds the write guard.
C11_Witness ==
    /\ is_sealed
    /\ \E p \in Appenders : pc[p] = "done" /\ result[p] = Err("LedgerSealed")
    /\ integrity # "unknown"
    /\ \E s \in Sealers : spc[s] = "relocked"

\* C12: a seal_ledger call made on an already-sealed chain returns Ok and
\* leaves what a single call leaves: the flag true, the write guard free,
\* the caller done, and the store, the clock and every append_event call
\* untouched.
C12_SealIdempotent ==
    [][\A s \in Sealers :
         (spc[s] = "relocked" /\ spc'[s] # "relocked")
            => /\ is_sealed /\ is_sealed'
               /\ seal_result'[s] = "Ok"
               /\ spc'[s] = "done"
               /\ lock_writers' = {}
               /\ UNCHANGED << validatorVars, lock_readers, records, clock, calls,
                               pc, callVars, integrity >>]_vars

\* C12 witness: a caller whose first seal_ledger call returned is inside a
\* second call, holding the write guard of the sealed chain.
C12_Witness ==
    \E s \in Sealers :
        spc[s] = "relocked" /\ is_sealed /\ lock_writers = {s}

\* C17: in every step of every operation the stored record sequence of the
\* old state is a prefix of the one of the new state.
C17_AppendOnly ==
    [][/\ Len(records') >= Len(records)
       /\ SubSeq(records', 1, Len(records)) = records]_vars

\* C17 witness: the chain holds two records and has been read by
\* verify_integrity since.
C17_Witness == Len(records) = 2 /\ integrity # "unknown"


\* ------------------------------------------------- validator claims
\* The violations of a result that carry the given rule id.
ViolationsOf(vs, id) == SelectSeq(vs, LAMBDA v : v.rule_id = id)

\* The step is a call of the given kind on the validator returning.
Returned(op) == vcall' # vcall /\ vcall'.op = op

\* C13: validate returns Ok; it evaluates every registered rule once; a rule
\* whose evaluation failed contributes exactly one Critical violation with
\* its id, and every other rule contributes exactly its own violations.
C13_FailingRuleIsolated ==
    [][Returned("validate") =>
         /\ vcall'.ok
         /\ vcall'.evaluated \in Orders(DOMAIN rules)
         /\ \A id \in DOMAIN rules :
              LET r == Rule_evaluate(rules[id], vcall'.event)
                  mine == ViolationsOf(vcall'.violations, id)
              IN IF r.ok THEN mine = r.violations
                 ELSE mine = << Violation(id, "Critical") >>]_vars

\* validate has returned for a registry holding a failing rule and another
\* rule that reported a violation of its own.
C13_Witness ==
    /\ vcall.op = "validate"
    /\ Len(vcall.violations) = 2
    /\ \E bad, good \in DOMAIN rules :
         /\ bad # good
         /\ ~Rule_evaluate(rules[bad], vcall.event).ok
         /\ Rule_evaluate(rules[good], vcall.event).violations # << >>
         /\ ViolationsOf(vcall.violations, good) # << >>

\* C14: validate_with_rule_set with a registered name evaluates exactly the
\* ids the rule set lists, in the declared order, whether or not a rule is
\* registered under each of them.
C14_RuleSetEvaluatesListed ==
    [][(Returned("validate_with_rule_set") /\ vcall'.set \in DOMAIN rule_sets)
         => vcall'.evaluated = rule_sets[vcall'.set]]_vars

\* C15: validate_with_rule_set with a name create_rule_set never registered
\* fails with the rule-set-not-found error and evaluates no rule.
C15_UnknownRuleSetFails ==
    [][(Returned("validate_with_rule_set") /\ vcall'.set \notin DOMAIN rule_sets)
         => /\ ~vcall'.ok
            /\ vcall'.error = "Rule set not found"
            /\ vcall'.evaluated = << >>
            /\ vcall'.violations = << >>]_vars

\* The unregistered name was asked of a validator that has rules and a rule
\* set under another name.
C15_Witness ==
    /\ vcall.op = "validate_with_rule_set"
    /\ vcall.set \notin DOMAIN rule_sets
    /\ ~vcall.ok
    /\ rules # << >>
    /\ rule_sets # << >>

\* C16: AmountLimitRule(L, C) returns one Error violation with id
\* AMOUNT_LIMIT for a FinancialTransaction in currency C with amount > L,
\* and no violation for any other event.
C16_AmountLimitExact ==
    [][(Returned("evaluate") /\ vcall'.rule.kind = "AmountLimit") =>
         /\ vcall'.ok
         /\ vcall'.violations =
              IF /\ vcall'.event.kind = "FinancialTransaction"
                 /\ vcall'.event.currency = vcall'.rule.currency
                 /\ vcall'.event.amount > vcall'.rule.limit
              THEN << [rule_id |-> "AMOUNT_LIMIT", severity |-> "Error"] >>
              ELSE << >>]_vars

\* The rule was evaluated on a transaction in its currency whose amount is
\* exactly the limit.
C16_Witness ==
    /\ vcall.op = "evaluate"
    /\ vcall.rule.kind = "AmountLimit"
    /\ vcall.event.kind = "FinancialTransaction"
    /\ vcall.event.currency = vcall.rule.currency
    /\ vcall.event.amount = vcall.rule.limit
    /\ vcall.violations = << >>

\* The rule most recently passed to add_rule under the id.
LatestAdded(history, id) ==
    history[CHOOSE i \in 1..Len(history) :
              /\ get_rule_id(history[i]) = id
              /\ \A j \in (i + 1)..Len(history) : get_rule_id(history[j]) # id]

\* C18: add_rule under an id already registered replaces the rule and does
\* not grow the registry; the registry holds, for each id ever added, the
\* rule added last, and validate evaluates that rule only.
C18_DuplicateIdReplaces ==
    [][/\ (added' # added /\ get_rule_id(added'[Len(added')]) \in DOMAIN rules)
            => Cardinality(DOMAIN rules') = Cardinality(DOMAIN rules)
       /\ DOMAIN rules' = { get_rule_id(added'[i]) : i \in 1..Len(added') }
       /\ \A id \in DOMAIN rules' : rules'[id] = LatestAdded(added', id)
       /\ Returned("validate") =>
            /\ vcall'.evaluated \in Orders(DOMAIN rules)
            /\ \A id \in DOMAIN rules :
                 ViolationsOf(vcall'.violations, id)
                   = validate_one(LatestAdded(added, id), vcall'.event)]_vars

\* Two different rules were added under one id, and validate then returned
\* what the second one reports, which is not what the first would have.
C18_Witness ==
    /\ Len(added) = 2
    /\ get_rule_id(added[1]) = get_rule_id(added[2])
    /\ Cardinality(DOMAIN rules) = 1
    /\ vcall.op = "validate"
    /\ vcall.violations = validate_one(added[2], vcall.event)
    /\ vcall.violations # validate_one(added[1], vcall.event)

\* ------------------------------------------- claim on sequential calls
\* C20: when append_event calls do not overlap, every stored record but the
\* first has previous_hash equal to the identity hash of the record stored
\* just before it, the first has None, and a call that returned Ok left its
\* record in the chain, whatever calls failed around it.
C20_SequentialChainLinked ==
    /\ \A i \in 1..Len(records) :
         records[i].previous_hash =
           IF i = 1 THEN None ELSE records[i - 1].event_id
    /\ \A p \in Appenders :
         (pc[p] = "done" /\ result[p].tag = "Ok") =>
           \E i \in 1..Len(records) : records[i].event_id = result[p].hash

\* Two calls succeeded with a failed call among the three made, and every
\* call has returned.
C20_Witness ==
    /\ calls = 3
    /\ Len(records) = 2
    /\ \A p \in Appenders : pc[p] \in {"idle", "done"}
    /\ \E p \in Appenders : pc[p] = "done" /\ result[p].tag \notin {"Ok", "Pending"}

\* ------------------------------------------------- claim on termination
\* C19: under fair scheduling every append_event call and every seal_ledger
\* call that has started eventually returns.
C19_CallsReturn ==
    /\ \A p \in Appenders : (pc[p] \notin {"idle", "done"}) ~> (pc[p] = "done")
    /\ \A s \in Sealers : (spc[s] \in {"write_lock", "locked"}) ~> (spc[s] = "done")

\* A seal_ledger call is waiting for the write guard while an appender holds
\* a read guard and another append_event call is in flight.
C19_Witness ==
    /\ \E s \in Sealers : spc[s] = "write_lock"
    /\ lock_readers # {}
    /\ \E p \in Appenders : pc[p] \notin {"idle", "done"} /\ p \notin lock_readers

====
